---- MODULE Spec2Model ----
(***************************************************************************)
(* Intervention lifecycle of agent/experiments/run_robots.py: the worker   *)
(* thread (_intervention_loop), its start/stop bookkeeping, the three      *)
(* /intervene request handlers and the signal-driven cleanup.              *)
(*                                                                         *)
(* Threads are numbered 1..MaxThreads in the order they are spawned.        *)
(* Request handlers run in NumClients concurrent request contexts; the     *)
(* contexts are interchangeable, so the state keeps how many of them are   *)
(* at each position of a handler (the others are idle).  The module's own  *)
(* __main__ serves one request at a time (threaded=False); the handlers    *)
(* and start/stop_intervention are written for concurrent callers (they    *)
(* share intervention_lock), which is what NumClients > 1 exercises.       *)
(* The signal handler runs once; it interrupts the main thread only, so    *)
(* workers and the other request contexts keep running during cleanup().   *)
(* Timeouts (join(timeout=2)) are abstracted to "may elapse at any time".  *)
(*                                                                         *)
(* What a step calls on the agent and what telemetry it sends is kept, for *)
(* that step only, in `calls` and `sent` when the agent and the transports *)
(* record it (`traced`, as test doubles do); Spec runs without recording,  *)
(* SerialSpec (requests served one at a time, as __main__ does) with it.   *)
(* BimanualAgent (gello/agents/agent.py) is modelled by the calls each of  *)
(* its methods makes on the two underlying agents; AgentSpec calls the     *)
(* methods on their own.                                                   *)
(* CleanupSpec takes cleanup() apart, invocation by invocation (a signal   *)
(* during an earlier cleanup, the atexit hook).  The receiver's handler of *)
(* POST /client/intervene (base.py) is modelled by what it returns for a   *)
(* request body; ReceiverSpec calls it on its own.                         *)
(***************************************************************************)
EXTENDS Naturals, FiniteSets, Sequences

\* ---------------------------------------------------------------- bounds
MaxThreads == 2
NumClients == 2
\* An observation passed to BimanualAgent.act has at most MaxKeys keys, each
\* with an array of at most MaxObsLen entries.
MaxKeys == 3
MaxObsLen == 4
\* A position passed to BimanualAgent.move_to_position has at most MaxPosLen
\* entries (the start pose of _intervention_loop has 14).
MaxPosLen == 14
\* The receiver holds at most MaxPcs peer connections in _pcs when a request
\* to /client/intervene arrives.
MaxPcs == 2

Threads == 1..MaxThreads

\* ------------------------------------------------------------- constants
\* Python's None, for a thread handle.
None == 0

\* BimanualAgent(agent_left=None, agent_right=instantiate_from_dict(...))
agent_left == "none"
agent_right == "right"

\* The arms the composed agent really holds a handle for.
ComposedArms == {agent_left, agent_right} \ {"none"}

\* streamAddress values of a POST /intervene body: absent/empty, a usable
\* address, and one urlparse rejects.
StreamAddresses == {"", "addr", "bad"}

VARIABLES
    intervention_thread,        \* None or the recorded worker
    intervention_stop_event,    \* threading.Event: is_set()
    intervention_lock,          \* threading.Lock: locked()
    currently_intervening,      \* module global flag
    webrtc_intervene_endpoint,  \* "none" or "url"
    webrtc_dc,                  \* "none", "open" or "closed"
    webrtc_connected,           \* module global flag; the program only
                                \* writes it, and its value is kept in the
                                \* runs that record (`traced`)
    torque,                     \* [ComposedArms -> BOOLEAN], the motors' mode
    wpc,                        \* [Threads -> position of each worker]
    handlers,                   \* [HandlerPos -> number of handlers there]
    answer,                     \* the HTTP answer the last step sent (if any):
                                \* its status, and what start_intervention()
                                \* returned ("True", "False"; "na": not called)
    cleanup_in_progress,        \* module global flag
    right_closed,               \* agent.agent_right.close() was called
    sigpc,                      \* "none", "cleanup" or "exited"
    launched,                   \* module global flag
    traced,                     \* the agent and the transports record what
                                \* is called on them (test doubles): `calls`
                                \* and `sent` are kept only when they do
    calls,                      \* the calls on the agent the last step made
    sent                        \* the telemetry sample the last step sent

vars == <<intervention_thread, intervention_stop_event, intervention_lock,
          currently_intervening, webrtc_intervene_endpoint, webrtc_dc, torque,
          wpc, handlers, answer, cleanup_in_progress, right_closed,
          sigpc, launched, traced, calls, sent, webrtc_connected>>

\* ------------------------------------------------------------- helpers
\* threading.Thread.is_alive(): started and run() not yet finished.
is_alive(t) == t # None /\ wpc[t] \notin {"unborn", "dead", "killed"}

AliveWorkers == {t \in Threads : is_alive(t)}

is_intervention_active ==
    intervention_thread # None /\ is_alive(intervention_thread)

\* Where a request handler can be between two of its steps.
HandlerPos == {"start_configure", "start_negotiate", "start_intervene",
               "stop_webrtc", "stop_intervention", "stop_join"}

\* The request contexts not handling a request.
Idle == NumClients - ( handlers["start_configure"] + handlers["start_negotiate"]
                     + handlers["start_intervene"] + handlers["stop_webrtc"]
                     + handlers["stop_intervention"] + handlers["stop_join"] )

\* A handler is entered, moves on, or returns.
Enter(to) == [handlers EXCEPT ![to] = @ + 1]
Move(from, to) == [handlers EXCEPT ![from] = @ - 1, ![to] = @ + 1]
Leave(from) == [handlers EXCEPT ![from] = @ - 1]

\* os._exit(0) has not been called.
Running == sigpc # "exited"

\* handle.set_torque_mode(mode) on an arm handle that is not None.
set_torque_mode(tq, handle, mode) == [tq EXCEPT ![handle] = mode]

\* No answer was sent by the step.
NoAnswer == [started |-> "na", status |-> "none"]

\* The step made no call on the agent.
NoCalls == << >>

\* The step sent no telemetry sample.
NoSample == [delivered |-> FALSE, fields |-> << >>, transport |-> "none"]

\* What a step leaves in `calls`, `sent` or webrtc_connected, none of which
\* the program reads: x if it is recorded.
Recorded(x, nothing) == IF traced THEN x ELSE nothing

\* ------------------------------------------------------- calls on agents
\* handle.fn(arg), as an entry of `calls`: <<handle, fn, arg>>.
Call(handle, fn, arg) == <<handle, fn, arg>>

\* The handle, the method and the argument of an entry.
On(c) == c[1]
Fn(c) == c[2]
Arg(c) == c[3]

\* An exception leaves the method; it ends the sequence of calls.
Raise(exc) == Call("", "raise", exc)

Raised(cs) == Len(cs) > 0 /\ Fn(cs[Len(cs)]) = "raise"

\* handle.fn(arg) where handle may be None: an attribute of None does not
\* exist, and the lookup raises AttributeError before any call is made.
CallOn(handle, fn, arg) ==
    IF handle = "none" THEN <<Raise("AttributeError")>>
                       ELSE <<Call(handle, fn, arg)>>

\* Statement sequencing: what follows a raise does not run.
Then(first, rest) == IF Raised(first) THEN first ELSE first \o rest

\* time.sleep(ms / 1000)
Sleep(ms) == Call("time", "sleep", ms)

\* ------------------------------------------------ BimanualAgent (agent.py)
\* An array is modelled by its length n; a slice of it by <<lo, hi>>, the
\* indices lo..hi-1 it keeps (a bound beyond the end is clipped to n).
SliceFrom(n, k) == <<IF k < n THEN k ELSE n, n>>
SliceTo(n, k) == <<0, IF k < n THEN k ELSE n>>

\* The observations of BimanualAgent.act: a dict, here the sequence of the
\* lengths of its values in insertion order.
Observations ==
    UNION {[1..k -> 0..MaxObsLen] : k \in 0..MaxKeys}

\* The loop of BimanualAgent.act over obs.items(): each value is split in
\* halves, and the assert stops at the first value of odd length.
RECURSIVE SplitObs(_, _, _)
SplitObs(obs, i, right_obs) ==
    IF i > Len(obs)
    THEN [ok |-> TRUE, right_obs |-> right_obs]
    ELSE LET L == obs[i]
             half_dim == L \div 2
         IN  IF L # half_dim * 2
             THEN [ok |-> FALSE, right_obs |-> right_obs]
             ELSE SplitObs(obs, i + 1, Append(right_obs, L - half_dim))

\* act without the assert: every value is split at L // 2, whatever L.
BimanualAgent_act_unchecked(left, right, obs) ==
    CallOn(right, "act", [i \in 1..Len(obs) |-> obs[i] - obs[i] \div 2])

\* BimanualAgent.act(obs): the calls it makes on the two agents.
BimanualAgent_act(left, right, obs) ==
    LET split == SplitObs(obs, 1, << >>)
    IN  IF ~split.ok THEN <<Raise("AssertionError")>>
        ELSE CallOn(right, "act", split.right_obs)

\* move_to_position with the two arms commanded in the other order.
BimanualAgent_move_to_position_left_first(left, right, n) ==
    Then(Then(Then(<<Sleep(50)>>,
                   CallOn(left, "move_to_position", SliceTo(n, 7))),
              <<Sleep(50)>>),
         CallOn(right, "move_to_position", SliceFrom(n, 7)))

\* BimanualAgent.move_to_position(position), position of length n.
BimanualAgent_move_to_position(left, right, n) ==
    Then(Then(Then(<<Sleep(50)>>,
                   CallOn(right, "move_to_position", SliceFrom(n, 7))),
              <<Sleep(50)>>),
         CallOn(left, "move_to_position", SliceTo(n, 7)))

\* BimanualAgent.set_torque_mode(mode)
BimanualAgent_set_torque_mode(left, right, mode) ==
    Then(CallOn(left, "set_torque_mode", mode),
         CallOn(right, "set_torque_mode", mode))

\* BimanualAgent.close()
BimanualAgent_close(left, right) ==
    Then(CallOn(left, "close", << >>), CallOn(right, "close", << >>))

\* The module's globals once it is imported: launched is l, and the agent and
\* transports record their calls iff tr.
Globals(l, tr) ==
    /\ intervention_thread = None
    /\ intervention_stop_event = FALSE
    /\ intervention_lock = FALSE
    /\ currently_intervening = FALSE
    /\ webrtc_intervene_endpoint = "none"
    /\ webrtc_dc = "none"
    /\ webrtc_connected = FALSE
    /\ torque = [a \in ComposedArms |-> TRUE]
    /\ wpc = [t \in Threads |-> "unborn"]
    /\ handlers = [p \in HandlerPos |-> 0]
    /\ answer = NoAnswer
    /\ cleanup_in_progress = FALSE
    /\ right_closed = FALSE
    /\ sigpc = "none"
    /\ launched = l
    /\ traced = tr
    /\ calls = NoCalls
    /\ sent = NoSample

\* The imported module: the agent was constructed and launched = True.
Init == Globals(TRUE, FALSE)

\* The same, with an agent and transports that record their calls.
TracedInit == Globals(TRUE, TRUE)

\* ------------------------------------------------- worker: _intervention_loop
\* A call on an underlying agent either returns (ok) or raises.
RobotCall(handle, fn, arg, ok) ==
    IF ok THEN CallOn(handle, fn, arg)
          ELSE Then(CallOn(handle, fn, arg), <<Raise("Exception")>>)

\* The start pose `arr` has 14 entries.
StartPoseLen == 14

\* The first preamble call going straight on to the torque-off call, with no
\* move to the start pose.
PreambleTorqueOn_SkipMove(t) ==
    /\ Running
    /\ wpc[t] = "preamble_on"
    /\ IF ~launched
       THEN /\ wpc' = [wpc EXCEPT ![t] = "dead"]
            /\ torque' = torque
            /\ calls' = NoCalls
       ELSE \E ok \in BOOLEAN :
              /\ calls' = Recorded(RobotCall(agent_right, "set_torque_mode",
                                             TRUE, ok), NoCalls)
              /\ IF ok
                 THEN /\ torque' = set_torque_mode(torque, agent_right, TRUE)
                      /\ wpc' = [wpc EXCEPT ![t] = "preamble_off"]
                 ELSE /\ torque' = torque
                      /\ wpc' = [wpc EXCEPT ![t] = "finally"]
    /\ answer' = NoAnswer
    /\ sent' = NoSample
    /\ UNCHANGED <<intervention_thread, intervention_stop_event,
                   intervention_lock, currently_intervening,
                   webrtc_intervene_endpoint, webrtc_dc, handlers,
                   cleanup_in_progress, right_closed, sigpc, launched,
                   traced, webrtc_connected>>

\* Preamble, first robot call: agent.agent_right.set_torque_mode(True).  A
\* robot call either takes effect or raises; a raise goes to the handler and
\* then the finally block.  (`if not launched: return` ends the thread at once.)
PreambleTorqueOn(t) ==
    /\ Running
    /\ wpc[t] = "preamble_on"
    /\ IF ~launched
       THEN /\ wpc' = [wpc EXCEPT ![t] = "dead"]
            /\ torque' = torque
            /\ calls' = NoCalls
       ELSE \E ok \in BOOLEAN :
              /\ calls' = Recorded(RobotCall(agent_right, "set_torque_mode",
                                                  TRUE, ok), NoCalls)
              /\ IF ok
                 THEN /\ torque' = set_torque_mode(torque, agent_right, TRUE)
                      /\ wpc' = [wpc EXCEPT ![t] = "preamble_move"]
                 ELSE /\ torque' = torque
                      /\ wpc' = [wpc EXCEPT ![t] = "finally"]
    /\ answer' = NoAnswer
    /\ sent' = NoSample
    /\ UNCHANGED <<intervention_thread, intervention_stop_event,
                   intervention_lock, currently_intervening,
                   webrtc_intervene_endpoint, webrtc_dc, handlers,
                   cleanup_in_progress, right_closed, sigpc, launched,
                   traced, webrtc_connected>>

\* The move to the start pose with its exception ignored: the worker goes on
\* to the torque-off call either way.
PreambleMove_RaiseIgnored(t) ==
    /\ Running
    /\ wpc[t] = "preamble_move"
    /\ \E ok \in BOOLEAN :
         /\ calls' = Recorded(RobotCall(agent_right, "move_to_position",
                                        SliceFrom(StartPoseLen, 7), ok),
                              NoCalls)
         /\ wpc' = [wpc EXCEPT ![t] = "preamble_off"]
    /\ answer' = NoAnswer
    /\ sent' = NoSample
    /\ UNCHANGED <<intervention_thread, intervention_stop_event,
                   intervention_lock, currently_intervening,
                   webrtc_intervene_endpoint, webrtc_dc, torque, handlers,
                   cleanup_in_progress, right_closed, sigpc, launched,
                   traced, webrtc_connected>>

\* agent.agent_right.move_to_position(arr[7:])
PreambleMove(t) ==
    /\ Running
    /\ wpc[t] = "preamble_move"
    /\ \E ok \in BOOLEAN :
         /\ calls' = Recorded(RobotCall(agent_right, "move_to_position",
                                        SliceFrom(StartPoseLen, 7), ok),
                              NoCalls)
         /\ wpc' = [wpc EXCEPT ![t] = IF ok THEN "preamble_off" ELSE "finally"]
    /\ answer' = NoAnswer
    /\ sent' = NoSample
    /\ UNCHANGED <<intervention_thread, intervention_stop_event,
                   intervention_lock, currently_intervening,
                   webrtc_intervene_endpoint, webrtc_dc, torque, handlers,
                   cleanup_in_progress, right_closed, sigpc, launched,
                   traced, webrtc_connected>>

\* agent.agent_right.set_torque_mode(False); currently_intervening = True
PreambleTorqueOff(t) ==
    /\ Running
    /\ wpc[t] = "preamble_off"
    /\ \E ok \in BOOLEAN :
         /\ calls' = Recorded(RobotCall(agent_right, "set_torque_mode",
                                        FALSE, ok), NoCalls)
         /\ IF ok
            THEN /\ torque' = set_torque_mode(torque, agent_right, FALSE)
                 /\ currently_intervening' = TRUE
                 /\ wpc' = [wpc EXCEPT ![t] = "loop"]
            ELSE /\ torque' = torque
                 /\ currently_intervening' = currently_intervening
                 /\ wpc' = [wpc EXCEPT ![t] = "finally"]
    /\ answer' = NoAnswer
    /\ sent' = NoSample
    /\ UNCHANGED <<intervention_thread, intervention_stop_event,
                   intervention_lock, webrtc_intervene_endpoint, webrtc_dc,
                   handlers, cleanup_in_progress, right_closed, sigpc,
                   launched, traced, webrtc_connected>>

\* while (not intervention_stop_event.is_set()) and currently_intervening:
LoopCondition == ~intervention_stop_event /\ currently_intervening

LoopCheck(t) ==
    /\ Running
    /\ wpc[t] = "loop"
    /\ wpc' = [wpc EXCEPT ![t] = IF LoopCondition THEN "body" ELSE "finally"]
    /\ answer' = NoAnswer
    /\ calls' = NoCalls
    /\ sent' = NoSample
    /\ UNCHANGED <<intervention_thread, intervention_stop_event,
                   intervention_lock, currently_intervening,
                   webrtc_intervene_endpoint, webrtc_dc, torque, handlers,
                   cleanup_in_progress, right_closed, sigpc, launched,
                   traced, webrtc_connected>>

\* _webrtc_send_json(payload): nothing without a channel; else _do_send is
\* scheduled on the WebRTC loop, where it sends if the channel is (still)
\* open.  A send or a scheduling that raises is logged and swallowed, so the
\* sample is delivered or silently lost.
webrtc_send_json(dc, fields, delivered) ==
    IF dc = "none" THEN NoSample
    ELSE [delivered |-> delivered /\ dc = "open", fields |-> fields,
          transport |-> "channel"]

\* urllib.request.urlopen(Request(endpoint, data=payload, method="POST"),
\* timeout=0.05): one POST, which succeeds, fails or times out.
http_post(endpoint, fields, delivered) ==
    [delivered |-> delivered, fields |-> fields, transport |-> "http"]

\* The same choice without the readyState test: any channel is used.
Telemetry_AnyChannel(dc, endpoint, delivered) ==
    IF dc # "none"
    THEN webrtc_send_json(dc, <<"joint_states", "timestamp">>, delivered)
    ELSE IF endpoint # "none"
         THEN http_post(endpoint, <<"joint_states">>, delivered)
         ELSE NoSample

\* The same choice with a downgrade: a sample for the channel that was not
\* delivered is handed to the HTTP fallback as well.
Telemetry_HttpWhenLost(dc, endpoint, delivered) ==
    IF dc # "none" /\ dc = "open"
    THEN IF delivered \/ endpoint = "none"
         THEN webrtc_send_json(dc, <<"joint_states", "timestamp">>, delivered)
         ELSE http_post(endpoint, <<"joint_states">>, TRUE)
    ELSE IF endpoint # "none"
         THEN http_post(endpoint, <<"joint_states">>, delivered)
         ELSE NoSample

\* The telemetry of one iteration: the channel if there is one and its
\* readyState is "open", else a POST to the endpoint if one is set, else
\* nothing.  Every exception is swallowed by the except around it.
Telemetry(dc, endpoint, delivered) ==
    IF dc # "none" /\ dc = "open"
    THEN webrtc_send_json(dc, <<"joint_states", "timestamp">>, delivered)
    ELSE IF endpoint # "none"
         THEN http_post(endpoint, <<"joint_states">>, delivered)
         ELSE NoSample

\* One iteration in which a telemetry send that fails is not swallowed: it
\* reaches the outer handler like an exception of agent.act().
LoopBody_SendRaises(t) ==
    /\ Running
    /\ wpc[t] = "body"
    /\ \E ok \in BOOLEAN, delivered \in BOOLEAN :
         LET acted == BimanualAgent_act(agent_left, agent_right, << >>)
             cs == IF ok THEN acted ELSE Then(acted, <<Raise("Exception")>>)
             sample == Telemetry(webrtc_dc, webrtc_intervene_endpoint,
                                 delivered)
         IN  /\ calls' = Recorded(cs, NoCalls)
             /\ IF Raised(cs)
                THEN /\ ~delivered
                     /\ sent' = NoSample
                     /\ wpc' = [wpc EXCEPT ![t] = "finally"]
                ELSE /\ sent' = Recorded(sample, NoSample)
                     /\ wpc' = [wpc EXCEPT ![t] =
                                   IF sample.transport # "none"
                                      /\ ~sample.delivered
                                   THEN "finally" ELSE "loop"]
    /\ answer' = NoAnswer
    /\ UNCHANGED <<intervention_thread, intervention_stop_event,
                   intervention_lock, currently_intervening,
                   webrtc_intervene_endpoint, webrtc_dc, torque, handlers,
                   cleanup_in_progress, right_closed, sigpc, launched,
                   traced, webrtc_connected>>

\* One iteration: joint_states = agent.act({}) may raise (fatal); the telemetry
\* send that follows swallows every exception; then time.sleep(0.01).
LoopBody(t) ==
    /\ Running
    /\ wpc[t] = "body"
    /\ \E ok \in BOOLEAN, delivered \in BOOLEAN :
         LET acted == BimanualAgent_act(agent_left, agent_right, << >>)
             cs == IF ok THEN acted ELSE Then(acted, <<Raise("Exception")>>)
         IN  /\ calls' = Recorded(cs, NoCalls)
             /\ IF Raised(cs)
                THEN /\ ~delivered
                     /\ sent' = NoSample
                     /\ wpc' = [wpc EXCEPT ![t] = "finally"]
                ELSE /\ sent' = Recorded(Telemetry(webrtc_dc,
                                                   webrtc_intervene_endpoint,
                                                   delivered), NoSample)
                     /\ wpc' = [wpc EXCEPT ![t] = "loop"]
    /\ answer' = NoAnswer
    /\ UNCHANGED <<intervention_thread, intervention_stop_event,
                   intervention_lock, currently_intervening,
                   webrtc_intervene_endpoint, webrtc_dc, torque, handlers,
                   cleanup_in_progress, right_closed, sigpc, launched,
                   traced, webrtc_connected>>

\* try: agent.agent_left.set_torque_mode(True); agent.agent_right.set_torque_mode(True)
\* except Exception: (ignored).  A call on a None handle raises AttributeError,
\* which skips the calls after it; n is the number of calls that complete.
RestoreTorque(tq, n) ==
    IF agent_left = "none"
    THEN tq
    ELSE IF n = 0 THEN tq
         ELSE IF n = 1 THEN set_torque_mode(tq, agent_left, TRUE)
              ELSE set_torque_mode(set_torque_mode(tq, agent_left, TRUE),
                                   agent_right, TRUE)

\* The calls of the same try block, n of which complete.
RestoreCalls(n) ==
    Then(RobotCall(agent_left, "set_torque_mode", TRUE, n >= 1),
         RobotCall(agent_right, "set_torque_mode", TRUE, n >= 2))

\* finally: restore torque (errors ignored); currently_intervening = False
Finally(t) ==
    /\ Running
    /\ wpc[t] = "finally"
    /\ \E n \in 0..2 : /\ torque' = RestoreTorque(torque, n)
                       /\ calls' = Recorded(RestoreCalls(n), NoCalls)
    /\ currently_intervening' = FALSE
    /\ wpc' = [wpc EXCEPT ![t] = "dead"]
    /\ answer' = NoAnswer
    /\ sent' = NoSample
    /\ UNCHANGED <<intervention_thread, intervention_stop_event,
                   intervention_lock, webrtc_intervene_endpoint, webrtc_dc,
                   handlers, cleanup_in_progress, right_closed, sigpc,
                   launched, traced, webrtc_connected>>

\* ------------------------------------------- start_intervention / stop_intervention
\* The thread a Thread(...).start() creates: the next one never started.
NextThread == CHOOSE t \in Threads :
                 wpc[t] = "unborn" /\ \A u \in Threads : u < t => wpc[u] # "unborn"

\* start_intervention() without its "already running" check.
start_intervention_unchecked(ret) ==
    /\ ~intervention_lock
    /\ ret = TRUE
    /\ \E t \in Threads : wpc[t] = "unborn"
    /\ intervention_stop_event' = FALSE
    /\ intervention_thread' = NextThread
    /\ wpc' = [wpc EXCEPT ![NextThread] = "preamble_on"]
    /\ UNCHANGED <<intervention_lock, currently_intervening>>

\* start_intervention() testing the handle only, without is_alive(): a
\* recorded thread that has ended still counts as running.
start_intervention_handle_only(ret) ==
    /\ ~intervention_lock
    /\ IF intervention_thread # None
       THEN /\ ret = FALSE
            /\ UNCHANGED <<intervention_thread, intervention_stop_event, wpc>>
       ELSE /\ ret = TRUE
            /\ \E t \in Threads : wpc[t] = "unborn"
            /\ intervention_stop_event' = FALSE
            /\ intervention_thread' = NextThread
            /\ wpc' = [wpc EXCEPT ![NextThread] = "preamble_on"]
    /\ UNCHANGED <<intervention_lock, currently_intervening>>

\* start_intervention(), whole body under `with intervention_lock`; ret is
\* the value it returns.
start_intervention(ret) ==
    /\ ~intervention_lock
    /\ IF is_intervention_active
       THEN /\ ret = FALSE
            /\ UNCHANGED <<intervention_thread, intervention_stop_event, wpc>>
       ELSE /\ ret = TRUE
            /\ \E t \in Threads : wpc[t] = "unborn"
            /\ intervention_stop_event' = FALSE
            /\ intervention_thread' = NextThread
            /\ wpc' = [wpc EXCEPT ![NextThread] = "preamble_on"]
    /\ UNCHANGED <<intervention_lock, currently_intervening>>

\* stop_intervention() up to the join: take the lock, currently_intervening =
\* False, intervention_stop_event.set(); with no live recorded thread there is
\* nothing to join, the handle is cleared and the lock released at once.
stop_intervention_begin ==
    /\ ~intervention_lock
    /\ currently_intervening' = FALSE
    /\ intervention_stop_event' = TRUE
    /\ IF is_intervention_active
       THEN /\ intervention_lock' = TRUE
            /\ intervention_thread' = intervention_thread
       ELSE /\ intervention_lock' = FALSE
            /\ intervention_thread' = None

\* join() with no timeout: returns only when the thread has ended.
JoinReturns_NoTimeout(timedOut) == ~is_alive(intervention_thread)

\* intervention_thread.join(timeout=2) returns when the thread has ended or
\* when the timeout has elapsed, whichever is first.
JoinReturns(timedOut) == timedOut \/ ~is_alive(intervention_thread)

\* After the join (a thread still alive only logs a warning):
\* intervention_thread = None, and the `with` block releases the lock.
stop_intervention_end ==
    /\ intervention_lock
    /\ \E timedOut \in BOOLEAN : JoinReturns(timedOut)
    /\ intervention_thread' = None
    /\ intervention_lock' = FALSE

\* --------------------------------------------------------- WebRTC channel
\* start_webrtc_connection(): nothing without an endpoint; a negotiation that
\* succeeds stores the new channel, one that fails (or times out) leaves
\* webrtc_dc as it was.
start_webrtc_connection(dc, endpoint, ok) ==
    IF endpoint = "none" THEN dc
    ELSE IF ok THEN "open" ELSE dc

\* webrtc_connected after start_webrtc_connection(): untouched without an
\* endpoint, True after a negotiation that succeeds, False after one that fails.
Connected(connected, endpoint, ok) ==
    IF endpoint = "none" THEN connected ELSE ok

\* stop_webrtc_connection(): close the channel (errors ignored), and in the
\* finally block webrtc_dc = None.
stop_webrtc_connection(dc) == "none"

\* The remote peer closes the data channel: readyState leaves "open".
ChannelClosedByPeer ==
    /\ Running
    /\ webrtc_dc = "open"
    /\ webrtc_dc' = "closed"
    /\ answer' = NoAnswer
    /\ UNCHANGED <<intervention_thread, intervention_stop_event,
                   intervention_lock, currently_intervening,
                   webrtc_intervene_endpoint, torque, wpc, handlers,
                   cleanup_in_progress, right_closed, sigpc>>
    /\ calls' = NoCalls
    /\ sent' = NoSample
    /\ UNCHANGED <<launched, traced, webrtc_connected>>

\* ------------------------------------------------------ request handlers
\* GET /intervene: a pure query, answered from the state as it is.
api_intervene_status == [active |-> is_intervention_active]

\* POST /intervene without its `if not launched` return.
api_intervene_start_check_unguarded ==
    /\ Running
    /\ Idle > 0
    /\ IF is_intervention_active
       THEN /\ answer' = [started |-> "na", status |-> "already_active"]
            /\ handlers' = handlers
       ELSE /\ answer' = NoAnswer
            /\ handlers' = Enter("start_configure")
    /\ UNCHANGED <<intervention_thread, intervention_stop_event,
                   intervention_lock, currently_intervening,
                   webrtc_intervene_endpoint, webrtc_dc, torque, wpc,
                   cleanup_in_progress, right_closed, sigpc>>
    /\ calls' = NoCalls
    /\ sent' = NoSample
    /\ UNCHANGED <<launched, traced, webrtc_connected>>

\* POST /intervene, the two early returns: not launched, already active.
api_intervene_start_check ==
    /\ Running
    /\ Idle > 0
    /\ IF ~launched
       THEN /\ answer' = [started |-> "na", status |-> "not_launched"]
            /\ handlers' = handlers
       ELSE IF is_intervention_active
            THEN /\ answer' = [started |-> "na", status |-> "already_active"]
                 /\ handlers' = handlers
            ELSE /\ answer' = NoAnswer
                 /\ handlers' = Enter("start_configure")
    /\ UNCHANGED <<intervention_thread, intervention_stop_event,
                   intervention_lock, currently_intervening,
                   webrtc_intervene_endpoint, webrtc_dc, torque, wpc,
                   cleanup_in_progress, right_closed, sigpc>>
    /\ calls' = NoCalls
    /\ sent' = NoSample
    /\ UNCHANGED <<launched, traced, webrtc_connected>>

\* The endpoint built from the request's streamAddress: the address with the
\* path /client/intervene, or None for no address or one urlparse rejects.
EndpointOf(stream_address) == IF stream_address = "addr" THEN "url" ELSE "none"

\* POST /intervene: webrtc_intervene_endpoint is set from the body; only a
\* usable address goes on to the negotiation.
api_intervene_start_configure ==
    /\ Running
    /\ handlers["start_configure"] > 0
    /\ \E stream_address \in StreamAddresses :
         /\ webrtc_intervene_endpoint' = EndpointOf(stream_address)
         /\ handlers' = Move("start_configure",
                             IF stream_address = "addr" THEN "start_negotiate"
                                                        ELSE "start_intervene")
    /\ answer' = NoAnswer
    /\ UNCHANGED <<intervention_thread, intervention_stop_event,
                   intervention_lock, currently_intervening, webrtc_dc,
                   torque, wpc, cleanup_in_progress, right_closed, sigpc>>
    /\ calls' = NoCalls
    /\ sent' = NoSample
    /\ UNCHANGED <<launched, traced, webrtc_connected>>

\* POST /intervene: start_webrtc_connection() returns (at most 5 s later).
api_intervene_start_negotiate ==
    /\ Running
    /\ handlers["start_negotiate"] > 0
    /\ \E ok \in BOOLEAN :
         /\ webrtc_dc' = start_webrtc_connection(webrtc_dc,
                                                 webrtc_intervene_endpoint, ok)
         /\ webrtc_connected' =
                Recorded(Connected(webrtc_connected,
                                   webrtc_intervene_endpoint, ok), FALSE)
    /\ handlers' = Move("start_negotiate", "start_intervene")
    /\ answer' = NoAnswer
    /\ UNCHANGED <<intervention_thread, intervention_stop_event,
                   intervention_lock, currently_intervening,
                   webrtc_intervene_endpoint, torque, wpc,
                   cleanup_in_progress, right_closed, sigpc>>
    /\ calls' = NoCalls
    /\ sent' = NoSample
    /\ UNCHANGED <<launched, traced>>

\* The status POST /intervene answers with once intervene() has returned
\* (intervene() returns nothing: `started` does not reach the handler).
StartStatus(ret) == "already_active"

\* POST /intervene: intervene() calls start_intervention(), then the handler
\* returns its status.
api_intervene_start_intervene ==
    /\ Running
    /\ handlers["start_intervene"] > 0
    /\ \E ret \in BOOLEAN :
         /\ start_intervention(ret)
         /\ answer' = [started |-> IF ret THEN "True" ELSE "False",
                       status |-> StartStatus(ret)]
    /\ handlers' = Leave("start_intervene")
    /\ UNCHANGED <<webrtc_intervene_endpoint, webrtc_dc, torque,
                   cleanup_in_progress, right_closed, sigpc>>
    /\ calls' = NoCalls
    /\ sent' = NoSample
    /\ UNCHANGED <<launched, traced, webrtc_connected>>

\* DELETE /intervene without its early return.
api_intervene_stop_unchecked ==
    /\ Running
    /\ Idle > 0
    /\ answer' = NoAnswer
    /\ handlers' = Enter("stop_webrtc")
    /\ UNCHANGED <<intervention_thread, intervention_stop_event,
                   intervention_lock, currently_intervening,
                   webrtc_intervene_endpoint, webrtc_dc, torque, wpc,
                   cleanup_in_progress, right_closed, sigpc>>
    /\ calls' = NoCalls
    /\ sent' = NoSample
    /\ UNCHANGED <<launched, traced, webrtc_connected>>

\* DELETE /intervene, the early return: no active session.
api_intervene_stop_check ==
    /\ Running
    /\ Idle > 0
    /\ IF ~is_intervention_active
       THEN /\ answer' = [started |-> "na", status |-> "not_active"]
            /\ handlers' = handlers
       ELSE /\ answer' = NoAnswer
            /\ handlers' = Enter("stop_webrtc")
    /\ UNCHANGED <<intervention_thread, intervention_stop_event,
                   intervention_lock, currently_intervening,
                   webrtc_intervene_endpoint, webrtc_dc, torque, wpc,
                   cleanup_in_progress, right_closed, sigpc>>
    /\ calls' = NoCalls
    /\ sent' = NoSample
    /\ UNCHANGED <<launched, traced, webrtc_connected>>

\* DELETE /intervene going on to stop_intervention() with the channel left
\* as it is.
api_intervene_stop_webrtc_skipped ==
    /\ Running
    /\ handlers["stop_webrtc"] > 0
    /\ handlers' = Move("stop_webrtc", "stop_intervention")
    /\ answer' = NoAnswer
    /\ UNCHANGED <<intervention_thread, intervention_stop_event,
                   intervention_lock, currently_intervening,
                   webrtc_intervene_endpoint, webrtc_dc, webrtc_connected,
                   torque, wpc, cleanup_in_progress, right_closed, sigpc>>
    /\ calls' = NoCalls
    /\ sent' = NoSample
    /\ UNCHANGED <<launched, traced>>

\* DELETE /intervene: stop_webrtc_connection()
api_intervene_stop_webrtc ==
    /\ Running
    /\ handlers["stop_webrtc"] > 0
    /\ webrtc_dc' = stop_webrtc_connection(webrtc_dc)
    /\ webrtc_connected' = FALSE
    /\ handlers' = Move("stop_webrtc", "stop_intervention")
    /\ answer' = NoAnswer
    /\ UNCHANGED <<intervention_thread, intervention_stop_event,
                   intervention_lock, currently_intervening,
                   webrtc_intervene_endpoint, torque, wpc,
                   cleanup_in_progress, right_closed, sigpc>>
    /\ calls' = NoCalls
    /\ sent' = NoSample
    /\ UNCHANGED <<launched, traced>>

\* DELETE /intervene: stop_intervention() takes the lock and signals the
\* worker; it then blocks in the join, or returns when there is none to join.
api_intervene_stop_begin ==
    /\ Running
    /\ handlers["stop_intervention"] > 0
    /\ stop_intervention_begin
    /\ IF is_intervention_active
       THEN /\ handlers' = Move("stop_intervention", "stop_join")
            /\ answer' = NoAnswer
       ELSE /\ handlers' = Leave("stop_intervention")
            /\ answer' = [started |-> "na", status |-> "stopped"]
    /\ UNCHANGED <<webrtc_intervene_endpoint, webrtc_dc, torque, wpc,
                   cleanup_in_progress, right_closed, sigpc>>
    /\ calls' = NoCalls
    /\ sent' = NoSample
    /\ UNCHANGED <<launched, traced, webrtc_connected>>

\* DELETE /intervene: the join returns, stop_intervention() returns, and the
\* handler answers "stopped".
api_intervene_stop_end ==
    /\ Running
    /\ handlers["stop_join"] > 0
    /\ stop_intervention_end
    /\ handlers' = Leave("stop_join")
    /\ answer' = [started |-> "na", status |-> "stopped"]
    /\ UNCHANGED <<intervention_stop_event, currently_intervening,
                   webrtc_intervene_endpoint, webrtc_dc, torque, wpc,
                   cleanup_in_progress, right_closed, sigpc>>
    /\ calls' = NoCalls
    /\ sent' = NoSample
    /\ UNCHANGED <<launched, traced, webrtc_connected>>

\* ------------------------------------------------------ signal and cleanup
\* SIGINT/SIGTERM: signal_handler() calls cleanup(), which (unless one is in
\* progress) sets cleanup_in_progress, closes agent.agent_right and the
\* servers, and then joins the active threads.
signal_handler_begin ==
    /\ Running
    /\ sigpc = "none"
    /\ IF cleanup_in_progress
       THEN /\ sigpc' = "cleanup"
            /\ UNCHANGED <<cleanup_in_progress, right_closed>>
       ELSE /\ cleanup_in_progress' = TRUE
            /\ right_closed' = TRUE
            /\ sigpc' = "cleanup"
    /\ answer' = NoAnswer
    /\ UNCHANGED <<intervention_thread, intervention_stop_event,
                   intervention_lock, currently_intervening,
                   webrtc_intervene_endpoint, webrtc_dc, torque, wpc, handlers>>
    /\ calls' = NoCalls
    /\ sent' = NoSample
    /\ UNCHANGED <<launched, traced, webrtc_connected>>

\* cleanup(): thread.join(timeout=2) for each live thread of active_threads
\* returns (ended or timed out); then os._exit(0).
\* os._exit ends every thread at once and nothing of the process is left:
\* what remains is the robot (torque, right_closed) and the history.
signal_handler_exit ==
    /\ sigpc = "cleanup"
    /\ sigpc' = "exited"
    /\ calls' = NoCalls
    /\ sent' = NoSample
    /\ webrtc_connected' = FALSE
    /\ UNCHANGED <<launched, traced>>
    /\ wpc' = [t \in Threads |-> "killed"]
    /\ handlers' = [p \in HandlerPos |-> 0]
    /\ intervention_thread' = None
    /\ intervention_lock' = FALSE
    /\ intervention_stop_event' = FALSE
    /\ currently_intervening' = FALSE
    /\ webrtc_intervene_endpoint' = "none"
    /\ webrtc_dc' = "none"
    /\ cleanup_in_progress' = FALSE
    /\ answer' = NoAnswer
    /\ UNCHANGED <<torque, right_closed>>

\* One step of a worker thread.
WorkerStep ==
    \E t \in Threads :
        \/ PreambleTorqueOn(t)
        \/ PreambleMove(t)
        \/ PreambleTorqueOff(t)
        \/ LoopCheck(t)
        \/ LoopBody(t)
        \/ Finally(t)

\* One step of a POST /intervene handler.
StartStep ==
    \/ api_intervene_start_check
    \/ api_intervene_start_configure
    \/ api_intervene_start_negotiate
    \/ api_intervene_start_intervene

\* One step of a DELETE /intervene handler.
StopStep ==
    \/ api_intervene_stop_check
    \/ api_intervene_stop_webrtc
    \/ api_intervene_stop_begin
    \/ api_intervene_stop_end

Next ==
    \/ WorkerStep
    \/ StartStep
    \/ StopStep
    \/ ChannelClosedByPeer
    \/ signal_handler_begin
    \/ signal_handler_exit

Spec == Init /\ [][Next]_vars

\* Start requests only: any number of POST /intervene, concurrently, with no
\* stop request and no signal.
StartOnlyNext ==
    \/ WorkerStep
    \/ StartStep

StartOnlySpec == Init /\ [][StartOnlyNext]_vars

\* A session is active and some arm's torque is disabled.
SessionTorqueOff ==
    is_intervention_active /\ \E a \in ComposedArms : ~torque[a]

\* The program as in Spec, with the signal arriving only while a session is
\* active with torque disabled.
SignalNext ==
    \/ WorkerStep
    \/ StartStep
    \/ StopStep
    \/ ChannelClosedByPeer
    \/ (SessionTorqueOff /\ signal_handler_begin)
    \/ signal_handler_exit

SignalSpec == Init /\ [][SignalNext]_vars

\* The program as in Spec, with every stop_intervention() call scheduled:
\* the thread that runs it is not starved for ever.
FairSpec ==
    /\ Spec
    /\ WF_vars(api_intervene_stop_begin)
    /\ WF_vars(api_intervene_stop_end)

\* No request is being handled.
NoHandler == Idle = NumClients

\* The program as its __main__ runs it (app.run(..., threaded=False)): one
\* request is handled at a time, the next one is taken when the handler has
\* returned.  Workers, the peer and the signal run as in Next.
SerialNext ==
    \/ WorkerStep
    \/ (NoHandler /\ api_intervene_start_check)
    \/ api_intervene_start_configure
    \/ api_intervene_start_negotiate
    \/ api_intervene_start_intervene
    \/ (NoHandler /\ api_intervene_stop_check)
    \/ api_intervene_stop_webrtc
    \/ api_intervene_stop_begin
    \/ api_intervene_stop_end
    \/ ChannelClosedByPeer
    \/ signal_handler_begin
    \/ signal_handler_exit

\* Serial requests, with an agent and transports that record their calls.
SerialSpec == TracedInit /\ [][SerialNext]_vars

\* One step of worker t: the thread function _intervention_loop, run by the
\* thread start_intervention() started.
WorkerRun(t) ==
    \/ PreambleTorqueOn(t)
    \/ PreambleMove(t)
    \/ PreambleTorqueOff(t)
    \/ LoopCheck(t)
    \/ LoopBody(t)
    \/ Finally(t)

\* SerialSpec with every worker thread scheduled: a started thread is a
\* daemon thread of the interpreter, which keeps running it, and each of
\* its calls (robot, transport, sleep) returns or raises.
FairSerialSpec ==
    /\ SerialSpec
    /\ \A t \in Threads : WF_vars(WorkerRun(t))

\* The module with `launched` as the input of the handlers: it is False when
\* the launch at import (lines 118-149) has not run, True once it has.
LaunchInit == \E l \in BOOLEAN : Globals(l, TRUE)

LaunchSpec == LaunchInit /\ [][SerialNext]_vars

\* ------------------------------------- cleanup(), invocation by invocation
\* cleanup(): with cleanup_in_progress set it returns at once; otherwise it
\* sets the flag and calls agent.agent_right.close().  The calls it makes up
\* to there, given the flag it finds.
cleanup(in_progress) ==
    IF in_progress THEN NoCalls ELSE CallOn(agent_right, "close", << >>)

\* os._exit(0): every thread ends at once and nothing of the process is
\* left; cs are the calls of the step that ends in it.
os_exit(cs) ==
    /\ sigpc' = "exited"
    /\ calls' = Recorded(cs \o <<Call("os", "_exit", 0)>>, NoCalls)
    /\ wpc' = [t \in Threads |-> "killed"]
    /\ handlers' = [p \in HandlerPos |-> 0]
    /\ intervention_thread' = None
    /\ intervention_lock' = FALSE
    /\ intervention_stop_event' = FALSE
    /\ currently_intervening' = FALSE
    /\ webrtc_intervene_endpoint' = "none"
    /\ webrtc_dc' = "none"
    /\ webrtc_connected' = FALSE
    /\ cleanup_in_progress' = FALSE
    /\ answer' = NoAnswer
    /\ sent' = NoSample
    /\ UNCHANGED <<torque, launched, traced>>

\* The interpreter exits normally and runs the atexit hook: cleanup() up to
\* the close of the agent; its release of servers and threads follows.
atexit_cleanup ==
    /\ sigpc = "none"
    /\ sigpc' = "atexit"
    /\ calls' = Recorded(cleanup(cleanup_in_progress), NoCalls)
    /\ right_closed' = (right_closed \/ ~cleanup_in_progress)
    /\ cleanup_in_progress' = TRUE
    /\ answer' = NoAnswer
    /\ sent' = NoSample
    /\ UNCHANGED <<intervention_thread, intervention_stop_event,
                   intervention_lock, currently_intervening,
                   webrtc_intervene_endpoint, webrtc_dc, webrtc_connected,
                   torque, wpc, handlers, launched, traced>>

\* The atexit cleanup() has closed the servers and joined the threads; the
\* process ends (no signal handler involved).
atexit_exit ==
    /\ sigpc = "atexit"
    /\ sigpc' = "exited"
    /\ calls' = NoCalls
    /\ wpc' = [t \in Threads |-> "killed"]
    /\ handlers' = [p \in HandlerPos |-> 0]
    /\ intervention_thread' = None
    /\ intervention_lock' = FALSE
    /\ intervention_stop_event' = FALSE
    /\ currently_intervening' = FALSE
    /\ webrtc_intervene_endpoint' = "none"
    /\ webrtc_dc' = "none"
    /\ webrtc_connected' = FALSE
    /\ cleanup_in_progress' = FALSE
    /\ answer' = NoAnswer
    /\ sent' = NoSample
    /\ UNCHANGED <<torque, right_closed, launched, traced>>

\* The cleanup() of the first signal has closed the servers and joined the
\* threads of active_threads (each join returns within its timeout), and
\* returns to signal_handler().
cleanup_release ==
    /\ sigpc = "cleanup"
    /\ sigpc' = "released"
    /\ answer' = NoAnswer
    /\ calls' = NoCalls
    /\ sent' = NoSample
    /\ UNCHANGED <<intervention_thread, intervention_stop_event,
                   intervention_lock, currently_intervening,
                   webrtc_intervene_endpoint, webrtc_dc, webrtc_connected,
                   torque, wpc, handlers, cleanup_in_progress, right_closed,
                   launched, traced>>

\* signal_handler() of the first signal, after its cleanup(): os._exit(0).
signal_handler_os_exit ==
    /\ sigpc = "released"
    /\ os_exit(NoCalls)
    /\ UNCHANGED right_closed

\* A signal (SIGINT or SIGTERM) that arrives while an earlier cleanup() is
\* still running, or has just returned: the handler runs on top of it in
\* the main thread, its cleanup() call finds cleanup_in_progress, and
\* os._exit(0) follows.
signal_handler_nested ==
    /\ sigpc \in {"cleanup", "released", "atexit"}
    /\ os_exit(cleanup(cleanup_in_progress))
    /\ right_closed' = (right_closed \/ ~cleanup_in_progress)

\* The program with its exits taken apart: requests served one at a time,
\* a first signal, the atexit hook, and further signals during a cleanup.
CleanupNext ==
    \/ WorkerStep
    \/ (NoHandler /\ api_intervene_start_check)
    \/ api_intervene_start_configure
    \/ api_intervene_start_negotiate
    \/ api_intervene_start_intervene
    \/ (NoHandler /\ api_intervene_stop_check)
    \/ api_intervene_stop_webrtc
    \/ api_intervene_stop_begin
    \/ api_intervene_stop_end
    \/ ChannelClosedByPeer
    \/ signal_handler_begin
    \/ cleanup_release
    \/ signal_handler_os_exit
    \/ signal_handler_nested
    \/ atexit_cleanup
    \/ atexit_exit

CleanupSpec == TracedInit /\ [][CleanupNext]_vars

\* ------------------------------------------- callers of BimanualAgent
\* The left handles a BimanualAgent is built with: None (as this module
\* builds it) or a left agent.
LeftAgents == {"none", "left"}

\* A caller's call agent.fn(arg) on BimanualAgent(left, right), entered as
\* <<"agent", fn, <<left, right, arg>>>> and followed by the calls `made`
\* that the method makes; nothing else changes.
AgentCall(left, right, fn, arg, made) ==
    /\ calls' = <<Call("agent", fn, <<left, right, arg>>)>> \o made
    /\ UNCHANGED <<intervention_thread, intervention_stop_event,
                   intervention_lock, currently_intervening,
                   webrtc_intervene_endpoint, webrtc_dc, webrtc_connected,
                   torque, wpc, handlers, answer, cleanup_in_progress,
                   right_closed, sigpc, launched, traced, sent>>

agent_act ==
    \E left \in LeftAgents, obs \in Observations :
        AgentCall(left, agent_right, "act", obs,
                  BimanualAgent_act(left, agent_right, obs))

agent_move_to_position ==
    \E left \in LeftAgents, n \in 0..MaxPosLen :
        AgentCall(left, agent_right, "move_to_position", n,
                  BimanualAgent_move_to_position(left, agent_right, n))

agent_set_torque_mode ==
    \E left \in LeftAgents, mode \in BOOLEAN :
        AgentCall(left, agent_right, "set_torque_mode", mode,
                  BimanualAgent_set_torque_mode(left, agent_right, mode))

agent_close ==
    \E left \in LeftAgents :
        AgentCall(left, agent_right, "close", << >>,
                  BimanualAgent_close(left, agent_right))

AgentNext ==
    \/ agent_act
    \/ agent_move_to_position
    \/ agent_set_torque_mode
    \/ agent_close

\* BimanualAgent on its own: its methods called with every input of the
\* bounded sets.
AgentSpec == TracedInit /\ [][AgentNext]_vars

\* ------------------------------------- the receiver: POST /client/intervene
\* A request body, as text: <<kind, sdp, type, joint_states>>.  kind is what
\* the text is ("empty"; "text", no JSON; or a JSON "object", "array",
\* "string" or "number"); the flags say whether the words sdp, type and
\* joint_states occur in it: as keys of the object, as elements of the
\* array, inside the string or the text.
Bodies ==
    {<<"empty", FALSE, FALSE, FALSE>>, <<"number", FALSE, FALSE, FALSE>>}
        \cup ({"text", "object", "array", "string"}
                  \X BOOLEAN \X BOOLEAN \X BOOLEAN)

\* json.loads(body): <<raised, data>>, data being <<python type, sdp, type,
\* joint_states>> with the flags now saying what `"sdp" in data` etc. give.
json_loads(body) ==
    IF body[1] \in {"empty", "text"}
    THEN <<TRUE, <<"none", FALSE, FALSE, FALSE>>>>
    ELSE <<FALSE, <<CASE body[1] = "object" -> "dict"
                      [] body[1] = "array" -> "list"
                      [] body[1] = "string" -> "str"
                      [] OTHER -> "int",
                    body[2], body[3], body[4]>>>>

\* The empty dict {}.
EmptyDict == <<"dict", FALSE, FALSE, FALSE>>

\* data = json.loads(body) if body else {}; except Exception: data = {}
ParsedBody(body) ==
    IF body[1] = "empty" THEN EmptyDict
    ELSE IF json_loads(body)[1] THEN EmptyDict ELSE json_loads(body)[2]

\* The offer test without isinstance(data, dict).
IsOffer_AnyContainer(data) == data[2] /\ data[3]

\* isinstance(data, dict) and "sdp" in data and "type" in data
IsOffer(data) == data[1] = "dict" /\ data[2] /\ data[3]

\* What an offer can come to: RTCSessionDescription(...) raises ("invalid"),
\* the negotiation on the new peer connection raises ("failed"), or the
\* answer is made ("answered").
OfferOutcomes == {"invalid", "failed", "answered"}

\* intervene(request) with `pcs` peer connections in _pcs: <<status, body of
\* the response, size of _pcs afterwards>>.
intervene(body, pcs, outcome) ==
    IF IsOffer(ParsedBody(body))
    THEN CASE outcome = "invalid" -> <<400, "error", pcs>>
           [] outcome = "failed" -> <<500, "error", pcs + 1>>
           [] OTHER -> <<200, "answer", pcs + 1>>
    ELSE <<200, "status_ok", pcs>>

\* One request to POST /client/intervene: the request and what the handler
\* returned are left in `calls`; the robot side is not involved.
client_intervene ==
    \E body \in Bodies, pcs \in 0..MaxPcs, outcome \in OfferOutcomes :
        /\ calls' = <<Call("receiver", "intervene", <<body, pcs>>),
                      Call("receiver", "return", intervene(body, pcs, outcome))>>
        /\ UNCHANGED <<intervention_thread, intervention_stop_event,
                       intervention_lock, currently_intervening,
                       webrtc_intervene_endpoint, webrtc_dc, webrtc_connected,
                       torque, wpc, handlers, answer, cleanup_in_progress,
                       right_closed, sigpc, launched, traced, sent>>

ReceiverNext == client_intervene

\* The receiver on its own: requests with every body of the bounded set.
ReceiverSpec == TracedInit /\ [][ReceiverNext]_vars

\* ------------------------------------------------------------------ claims

\* C1: with start requests only (any number, concurrent, no stop in between),
\* at most one intervention worker thread is alive at any time.
C1_AtMostOneWorker == Cardinality(AliveWorkers) <= 1

\* Two start requests raced past the handler's check: the second call of
\* start_intervention() found the first one's worker alive.
C1_Witness == answer.started = "False" /\ Cardinality(AliveWorkers) = 1

\* C2: when a worker leaves its finally block and ends, torque is enabled on
\* every composed arm.
C2_TorqueEnabledAtWorkerExit ==
    [][\A t \in Threads :
          (wpc[t] = "finally" /\ wpc'[t] = "dead")
              => \A a \in ComposedArms : torque'[a]]_vars

\* C3: over all start and stop sequences, never are two workers alive at once.
C3_NeverTwoWorkers ==
    \A t1, t2 \in Threads : (is_alive(t1) /\ is_alive(t2)) => t1 = t2

\* C4: a signal that arrives while a session is active with torque disabled
\* leaves torque enabled on all arms when the process exits.
C4_SafeAtSignalExit == sigpc = "exited" => \A a \in ComposedArms : torque[a]

\* C5: the request whose start_intervention() call spawned the worker is
\* answered "started" (and every other one "already_active").
C5_SpawnerAnsweredStarted ==
    /\ answer.started = "True" => answer.status = "started"
    /\ answer.started = "False" => answer.status = "already_active"

\* The first step of a DELETE /intervene handler: it either answers
\* not_active at once or goes on to close the channel.
StopRequestStep ==
    \/ answer'.status = "not_active"
    \/ handlers'["stop_webrtc"] = handlers["stop_webrtc"] + 1

\* C6: a stop request issued when no session exists is answered not_active,
\* spawns no worker, enters no join (the handler returns in that step and the
\* lock is not taken), and leaves the worker handle, the cancellation signal
\* and the session channel unchanged.
C6_StopWithoutSession ==
    [][(StopRequestStep /\ ~is_intervention_active)
          => /\ answer'.status = "not_active"
             /\ UNCHANGED <<intervention_thread, intervention_stop_event,
                            intervention_lock, currently_intervening,
                            webrtc_intervene_endpoint, webrtc_dc, wpc,
                            handlers>>]_vars

\* A stop request was answered not_active with no session and no worker.
C6_Witness ==
    /\ answer.status = "not_active"
    /\ intervention_thread = None
    /\ AliveWorkers = {}

\* C7: a stop_intervention() call always returns: while it is in the join its
\* return is enabled whatever the worker does (so it returns as soon as it is
\* scheduled), a call waiting for the lock can proceed or the holder can
\* return; and when it returns the worker handle is cleared and
\* is_intervention_active() is false, joined or not.
C7_StopReturnsAndReleases ==
    /\ [](handlers["stop_join"] > 0 => ENABLED api_intervene_stop_end)
    /\ [](handlers["stop_intervention"] > 0
            => (ENABLED api_intervene_stop_begin \/ ENABLED api_intervene_stop_end))
    /\ [][answer'.status = "stopped"
            => (intervention_thread' = None /\ ~is_intervention_active')]_vars

\* C7, as a liveness property of FairSpec: a stop_intervention() call that is
\* in the join leaves it.
C7_JoinLeadsToReturn ==
    (handlers["stop_join"] > 0) ~> (handlers["stop_join"] = 0)

\* stop returned after a join that timed out: the worker is still alive.
C7_Witness ==
    /\ answer.status = "stopped"
    /\ intervention_thread = None
    /\ \E t \in Threads : is_alive(t)

\* C8: is_intervention_active() is true iff a worker thread is running.
C8_ActiveIffWorkerRunning == is_intervention_active <=> (AliveWorkers # {})

\* C9: the intervention lock is not held while stop_intervention() is blocked
\* in the join, so a start_intervention() call made meanwhile can run.
C9_LockFreeWhileJoining ==
    handlers["stop_join"] > 0
        => /\ ~intervention_lock
           /\ handlers["start_intervene"] > 0
                 => ENABLED api_intervene_start_intervene

\* A handler returns from intervene(), that is from start_intervention().
StartInterventionStep ==
    /\ handlers'["start_intervene"] = handlers["start_intervene"] - 1
    /\ sigpc' # "exited"

\* C10: start_intervention() called while the recorded worker is alive
\* returns False (no error) and changes nothing: no thread spawned, handle
\* unchanged, cancellation signal not cleared.
C10_StartWhileAliveChangesNothing ==
    [][(StartInterventionStep /\ is_intervention_active)
          => /\ answer'.started = "False"
             /\ UNCHANGED <<intervention_thread, intervention_stop_event,
                            intervention_lock, currently_intervening, wpc,
                            torque>>]_vars

\* start_intervention() has just returned False and the worker it found is
\* still the recorded one.
C10_Witness == answer.started = "False" /\ is_intervention_active

\* The first step of a POST /intervene handler: it answers at once
\* (not_launched, or already_active before intervene() is called) or it goes
\* on to read the request body.
StartRequestStep ==
    \/ answer'.status = "not_launched"
    \/ answer'.status = "already_active" /\ answer'.started = "na"
    \/ handlers'["start_configure"] = handlers["start_configure"] + 1

\* C11: while the robot agent was never launched, every start request is
\* answered not_launched, no worker is spawned, and no step makes a torque,
\* motion or telemetry call (torque stays as it was, nothing is called on
\* the agent, no sample is sent).
C11_NotLaunched ==
    [][~launched
          => /\ StartRequestStep => answer'.status = "not_launched"
             /\ \A t \in Threads : wpc'[t] \in {"unborn", "killed"}
             /\ torque' = torque
             /\ calls' = NoCalls
             /\ sent' = NoSample]_vars

\* A start request was refused because the agent was not launched.
C11_Witness == ~launched /\ answer.status = "not_launched"

\* Worker t completes a loop iteration: agent.act() returned and the
\* telemetry code ran.
LoopIteration(t) == wpc[t] = "body" /\ wpc'[t] = "loop"

\* C12: in every loop iteration the sample goes to the session channel if one
\* exists and reports open; otherwise, if a fallback URL is configured, one
\* HTTP POST is issued; otherwise nothing is sent.
C12_TransportPolicy ==
    [][\A t \in Threads :
          LoopIteration(t)
              => IF webrtc_dc = "open"
                 THEN sent'.transport = "channel"
                 ELSE IF webrtc_intervene_endpoint = "url"
                      THEN sent'.transport = "http"
                      ELSE sent' = NoSample]_vars

\* A channel exists but the peer has closed it: the sample went by HTTP.
C12_Witness == sent.transport = "http" /\ webrtc_dc = "closed"

\* C13: every telemetry payload, on the session channel or by HTTP, is an
\* object with exactly the fields joint_states and timestamp.
C13_SamePayloadShape ==
    sent.transport # "none" => sent.fields = <<"joint_states", "timestamp">>

\* C14: a telemetry send that fails, on the channel or by HTTP, does not
\* leave the iteration: the worker is back at the loop test, and torque, the
\* session flag and the cancellation signal are as they were, so that the
\* next iteration proceeds.
C14_SendFailureSwallowed ==
    [][\A t \in Threads :
          ( /\ wpc[t] = "body" /\ wpc'[t] # "body"
            /\ sent'.transport # "none" /\ ~sent'.delivered )
              => /\ wpc'[t] = "loop"
                 /\ UNCHANGED <<torque, currently_intervening,
                                intervention_stop_event>>]_vars

\* A sample for the channel was lost and the worker is at the loop test.
C14_Witness ==
    /\ sent.transport = "channel" /\ ~sent.delivered
    /\ \E t \in Threads : wpc[t] = "loop"

\* A DELETE /intervene handler calls stop_intervention(), which sets the
\* cancellation signal.
StopSignalStep ==
    /\ handlers'["stop_intervention"] = handlers["stop_intervention"] - 1
    /\ sigpc' # "exited"

\* C15: when a stop request that found an active session sets the
\* cancellation signal, the session channel has been closed and its
\* reference cleared.
C15_ChannelClosedBeforeSignal ==
    [][StopSignalStep
          => /\ intervention_stop_event'
             /\ webrtc_dc = "none" /\ webrtc_dc' = "none"
             /\ ~webrtc_connected]_vars

\* A stop request of a session that had an endpoint has set the signal and
\* waits for the worker; no channel is left.
C15_Witness ==
    /\ handlers["stop_join"] > 0
    /\ intervention_stop_event
    /\ webrtc_intervene_endpoint = "url"
    /\ webrtc_dc = "none"

\* C16: when the start request carried a streamAddress and its negotiation
\* failed (endpoint set, webrtc_connected False), intervene() still spawns
\* the worker, and every sample of the session's worker goes by HTTP POST.
C16_FailedNegotiationFallsBack ==
    [][( webrtc_intervene_endpoint = "url" /\ ~webrtc_connected )
          => /\ StartInterventionStep
                   => ( answer'.started = "True"
                        /\ webrtc_intervene_endpoint' = "url" )
             /\ \A t \in Threads :
                   ( LoopIteration(t) /\ t = intervention_thread )
                       => sent'.transport = "http"]_vars

\* The last step was a caller's agent.fn(...) on a BimanualAgent.
IsAgentCall(fn) ==
    Len(calls) > 0 /\ On(calls[1]) = "agent" /\ Fn(calls[1]) = fn

\* Entry i of `calls` is handle.fn(...).
IsCall(i, handle, fn) == On(calls[i]) = handle /\ Fn(calls[i]) = fn

\* C17: every BimanualAgent.move_to_position call commands the right arm,
\* and commands the left arm (always, when there is one) only after the
\* right arm and a sleep of non-zero length in between.
C17_RightMoveBeforeLeft ==
    IsAgentCall("move_to_position")
        => /\ \E i \in 2..Len(calls) : IsCall(i, "right", "move_to_position")
           /\ Arg(calls[1])[1] # "none"
                 => \E j \in 2..Len(calls) : IsCall(j, "left", "move_to_position")
           /\ \A j \in 2..Len(calls) :
                 IsCall(j, "left", "move_to_position")
                     => \E i, k \in 2..Len(calls) :
                           /\ i < k /\ k < j
                           /\ IsCall(i, "right", "move_to_position")
                           /\ IsCall(k, "time", "sleep")
                           /\ Arg(calls[k]) > 0

\* move_to_position was called on an agent with both arms, and the left arm
\* was commanded.
C17_Witness ==
    /\ IsAgentCall("move_to_position")
    /\ \E j \in 2..Len(calls) : IsCall(j, "left", "move_to_position")

\* The observation of an act call has a value of odd length.
HasOddLength(obs) == \E i \in 1..Len(obs) : obs[i] % 2 = 1

\* C18: BimanualAgent.act on an observation with a value of odd length
\* raises, and calls act on neither underlying agent.
C18_OddObservationRejected ==
    ( IsAgentCall("act") /\ HasOddLength(Arg(calls[1])[3]) )
        => /\ Raised(calls)
           /\ \A i \in 2..Len(calls) : Fn(calls[i]) # "act"

\* act was called with an even-length value followed by an odd-length one.
C18_Witness ==
    /\ IsAgentCall("act")
    /\ Len(Arg(calls[1])[3]) >= 2
    /\ Arg(calls[1])[3][1] % 2 = 0 /\ Arg(calls[1])[3][1] > 0
    /\ Arg(calls[1])[3][2] % 2 = 1
    /\ Raised(calls)

\* C19: BimanualAgent.set_torque_mode and BimanualAgent.close, on an agent
\* with both arms, each call the right agent and then the left agent.
C19_FanOutRightBeforeLeft ==
    \A fn \in {"set_torque_mode", "close"} :
        ( IsAgentCall(fn) /\ Arg(calls[1])[1] # "none" )
            => \E i, j \in 2..Len(calls) :
                  i < j /\ IsCall(i, "right", fn) /\ IsCall(j, "left", fn)

\* The step called handle.fn(arg) and the call returned.
Called(handle, fn, arg) == calls' = <<Call(handle, fn, arg)>>

\* C20: in every worker run torque is enabled on the composed arm(s) first,
\* then the move to the start pose is issued for each of them, and only then
\* is torque disabled: a worker comes to its move only from the call that
\* enabled torque, comes to its torque-off call only from the step that
\* issued the move, and no other step of the program disables torque.
C20_PreambleOrder ==
    [][\A t \in Threads :
          /\ ( wpc'[t] = "preamble_move" /\ wpc[t] # "preamble_move" )
                => /\ wpc[t] = "preamble_on"
                   /\ \A a \in ComposedArms :
                         Called(a, "set_torque_mode", TRUE) /\ torque'[a]
          /\ ( wpc'[t] = "preamble_off" /\ wpc[t] # "preamble_off" )
                => /\ wpc[t] = "preamble_move"
                   /\ \A a \in ComposedArms :
                         /\ Fn(calls'[1]) = "move_to_position"
                         /\ On(calls'[1]) = a
                   /\ torque' = torque
          /\ \A a \in ComposedArms :
                ( torque[a] /\ ~torque'[a] )
                    => /\ Called(a, "set_torque_mode", FALSE)
                       /\ \E u \in Threads :
                             wpc[u] = "preamble_off" /\ wpc'[u] = "loop"]_vars

\* A worker has gone through the whole preamble: its last call disabled
\* torque and it is at the loop test.
C20_Witness ==
    /\ calls = <<Call(agent_right, "set_torque_mode", FALSE)>>
    /\ ~torque[agent_right]
    /\ \E t \in Threads : wpc[t] = "loop"

\* The positions of a worker in its preamble (the try block up to the loop).
Preamble == {"preamble_on", "preamble_move", "preamble_off"}

\* C21: a preamble call that raises takes the worker straight to its finally
\* block, without setting currently_intervening and with no sample sent; and
\* from the finally block a worker only ends: it calls no agent.act, sends
\* no telemetry, leaves currently_intervening False, and if it is the
\* recorded worker is_intervention_active() is false from then on.
C21_PreambleFailureAborts ==
    [][\A t \in Threads :
          /\ ( wpc[t] \in Preamble /\ wpc'[t] # wpc[t] /\ Raised(calls') )
                => /\ wpc'[t] = "finally"
                   /\ currently_intervening' = currently_intervening
                   /\ sent' = NoSample
                   /\ \A i \in 1..Len(calls') : Fn(calls'[i]) # "act"
          /\ ( wpc[t] = "finally" /\ wpc'[t] # "finally" )
                => /\ wpc'[t] \in {"dead", "killed"}
                   /\ ~currently_intervening'
                   /\ sent' = NoSample
                   /\ \A i \in 1..Len(calls') : Fn(calls'[i]) # "act"
                   /\ intervention_thread' = t => ~is_intervention_active']_vars

\* The move to the start pose raised: the worker is in its finally block.
C21_Witness ==
    /\ Raised(calls)
    /\ Fn(calls[1]) = "move_to_position"
    /\ \E t \in Threads : wpc[t] = "finally"

\* stop_intervention() has set the cancellation signal for worker t and
\* waits in the join for it.
StopSignalled(t) ==
    /\ handlers["stop_join"] > 0
    /\ intervention_thread = t
    /\ intervention_stop_event
    /\ is_alive(t)

\* C22: a worker for which stop_intervention() has set the cancellation
\* signal eventually ends (every call it makes returning), in every
\* interleaving, also when the join times out and a later
\* start_intervention() clears the signal.
C22_SignalledWorkerEnds ==
    \A t \in Threads : StopSignalled(t) ~> ~is_alive(t)

\* C23: in a session started without a streamAddress (no endpoint is
\* configured while its worker is the recorded one), no iteration of the
\* session's worker sends a sample on any transport, whatever sessions came
\* before.
C23_NoAddressNoTelemetry ==
    [][\A t \in Threads :
          ( /\ LoopIteration(t)
            /\ t = intervention_thread
            /\ webrtc_intervene_endpoint = "none" )
              => sent' = NoSample]_vars

\* A POST /intervene handler runs its configuration or its negotiation step.
StartEndpointStep ==
    \/ handlers'["start_configure"] = handlers["start_configure"] - 1
    \/ handlers'["start_negotiate"] = handlers["start_negotiate"] - 1

\* C24: while the recorded worker is alive, no step of a POST /intervene
\* handler, later or concurrent, changes the fallback URL or the session
\* channel.
C24_EndpointFixedWhileAlive ==
    [][( StartEndpointStep /\ is_intervention_active )
          => UNCHANGED <<webrtc_intervene_endpoint, webrtc_dc>>]_vars

\* C25: a sample is handed to one transport, once.  An iteration that finds
\* the channel open hands its sample to the channel and to nothing else,
\* delivered or not (the channel may close before the scheduled send runs);
\* and a sample is sent only by the iteration that read it from agent.act():
\* no other step sends, so a lost sample is not sent again.
C25_OneTransportOnce ==
    [][/\ \A t \in Threads :
             ( LoopIteration(t) /\ webrtc_dc = "open" )
                 => /\ sent'.transport = "channel"
                    /\ sent'.fields = <<"joint_states", "timestamp">>
       /\ sent'.transport # "none"
             => /\ \E t \in Threads : LoopIteration(t)
                /\ calls' = <<Call(agent_right, "act", << >>)>>]_vars

\* A sample for the channel was lost while a fallback URL was configured.
C25_Witness ==
    /\ sent.transport = "channel" /\ ~sent.delivered
    /\ webrtc_intervene_endpoint = "url"
    /\ calls = <<Call(agent_right, "act", << >>)>>

\* C26: while a session is active (the recorded worker is alive and uses the
\* agent), no other context closes an arm: agent.agent_right.close() is
\* called only when no session is active.
C26_NoCloseWhileSessionActive ==
    [][( right_closed' /\ ~right_closed ) => ~is_intervention_active]_vars

\* The recorded worker has ended and no stop_intervention() call was made
\* for it: its handle is still recorded (stop_intervention() clears it) and
\* no DELETE /intervene handler is under way.
EndedByItself ==
    /\ intervention_thread # None
    /\ wpc[intervention_thread] = "dead"
    /\ handlers["stop_webrtc"] + handlers["stop_intervention"]
           + handlers["stop_join"] = 0

\* The threads a step starts.
Spawned == {t \in Threads : wpc[t] = "unborn" /\ wpc'[t] = "preamble_on"}

\* C27: once the recorded worker has ended by itself, with no
\* stop_intervention() call, is_intervention_active() is false and GET
\* /intervene reports inactive; a stop request is answered not_active and
\* goes no further; and the next start_intervention() returns True, spawns
\* exactly one worker, records it, and leaves the cancellation signal clear.
C27_SessionGoneAfterOwnExit ==
    [][EndedByItself
          => /\ ~is_intervention_active
             /\ ~api_intervene_status.active
             /\ StopRequestStep
                   => /\ answer'.status = "not_active"
                      /\ handlers' = handlers
             /\ StartInterventionStep
                   => /\ answer'.started = "True"
                      /\ Cardinality(Spawned) = 1
                      /\ intervention_thread' \in Spawned
                      /\ ~intervention_stop_event']_vars

\* A second worker was spawned after the first had ended by itself: the
\* first one's finally block was its last step before the start requests.
C27_Witness ==
    /\ answer.started = "True"
    /\ intervention_thread = 2
    /\ wpc[1] = "dead" /\ wpc[2] = "preamble_on"
    /\ ~intervention_stop_event

\* The call agent.move_to_position made handle.move_to_position(slice).
Moved(handle, slice) ==
    \E i \in 2..Len(calls) :
        IsCall(i, handle, "move_to_position") /\ Arg(calls[i]) = slice

\* C28: BimanualAgent.move_to_position, on an agent with both arms and a
\* position of even length 2n, hands the first n entries to one arm and the
\* last n entries to the other.
C28_SplitAtMidpoint ==
    ( /\ IsAgentCall("move_to_position")
      /\ Arg(calls[1])[1] # "none"
      /\ Arg(calls[1])[3] % 2 = 0 )
        => LET n == Arg(calls[1])[3] \div 2
           IN  \/ Moved("left", <<0, n>>) /\ Moved("right", <<n, 2 * n>>)
               \/ Moved("right", <<0, n>>) /\ Moved("left", <<n, 2 * n>>)

\* The step calls fn on handle.
Calls(handle, fn) ==
    \E i \in 1..Len(calls') : On(calls'[i]) = handle /\ Fn(calls'[i]) = fn

\* C29: over any sequence of cleanup() invocations (atexit, SIGINT, SIGTERM,
\* also a signal during an earlier cleanup) the agent is closed at most once
\* (no invocation closes an agent that is closed), and os._exit(0) is
\* called by a signal handler only when the first cleanup() has completed
\* its release of servers and threads.
C29_CleanupIdempotent ==
    [][/\ ( right_closed /\ right_closed' ) => ~Calls(agent_right, "close")
       /\ Calls("os", "_exit") => sigpc = "released"]_vars

\* The last step was a request to the receiver's POST /client/intervene.
IsReceiverCall ==
    Len(calls) = 2 /\ On(calls[1]) = "receiver" /\ Fn(calls[1]) = "intervene"

\* The body is a JSON object that has both the keys sdp and type.
ObjectWithSdpAndType(body) == body[1] = "object" /\ body[2] /\ body[3]

\* C30: POST /client/intervene treats a request as an offer only if its
\* body is a JSON object with both sdp and type; every other body is
\* answered 200 {status: ok} and _pcs is as large as before.
C30_OnlyOffersNegotiate ==
    IsReceiverCall
        => LET body == Arg(calls[1])[1]
               pcs == Arg(calls[1])[2]
           IN  ~ObjectWithSdpAndType(body)
                   => Arg(calls[2]) = <<200, "status_ok", pcs>>

\* A telemetry sample (an object with joint_states and no sdp) was
\* acknowledged while _pcs held a connection.
C30_Witness ==
    /\ IsReceiverCall
    /\ Arg(calls[1]) = <<<<"object", FALSE, FALSE, TRUE>>, 1>>
    /\ Arg(calls[2]) = <<200, "status_ok", 1>>

====
